---- MODULE Spec2Model ----
(***************************************************************************)
(* A model of the two-player Yahtzee server: the dice set (dice.py), the   *)
(* scorecard (scorecard.py), the single-player game (game.py), the room    *)
(* (gamestate.py) and the threaded session coordinator (server.py).        *)
(*                                                                         *)
(* Python objects are records; a method is an operator from the object     *)
(* (and its arguments) to the object after the call, together with the     *)
(* outcome of the call: "ok" or the kind of the exception it raised.  A    *)
(* call of random.randint is an argument of the operator (the faces drawn),*)
(* chosen by the action that applies it.  Python's 0-based position i is   *)
(* position i+1 of a TLA+ sequence.                                        *)
(***************************************************************************)
EXTENDS Integers, Sequences, FiniteSets, TLC

VARIABLES
    dset,       \* SpecDice: one YahtzeeDice object
    dcall,      \* SpecDice: the last call made on dset and its outcome
    rooms,      \* server.py rooms: room code -> the room_data dict registered (NoRoom: no key)
    heap,       \* the room_data dicts {'clients', 'state'}, by object identity
    pc,         \* per connection thread: where client() stands
    loc,        \* per connection thread: the locals of client() and broadcast_state()
    broken,     \* per connection: a write to its socket fails
    resp,       \* per connection: the status of the last response written to it
    wlock,      \* per connection: that response was written inside a `with lock` block
    reqs,       \* how many requests the peers have yet to send, all together
    snap,       \* SpecCast, per thread: the Room its broadcast_state has pickled
    seen,       \* SpecCast, per connection: the Room of the last update written to it
    card,       \* SpecCard, SpecHand: one YahtzeeScorecard object
    hand,       \* SpecCard, SpecHand: the dice passed to the last call made on card
    ccall,      \* SpecCard, SpecHand: the last call made on card and what it returned
    game,       \* SpecGame: one YahtzeeGame object
    gcall       \* SpecGame: the last call made on game and its outcome

dvars == <<dset, dcall>>
svars == <<rooms, heap, pc, loc, broken, resp, wlock, reqs, snap, seen>>
cvars == <<card, hand, ccall>>
gvars == <<game, gcall>>
vars == <<dset, dcall, rooms, heap, pc, loc, broken, resp, wlock, reqs, snap, seen,
          card, hand, ccall, game, gcall>>

(***************************************************************************)
(* Bounds of the model.                                                    *)
(***************************************************************************)
\* SpecDice: random.randint(1, 6) draws a face in 1..DiceMaxFace
DiceMaxFace == 2
\* SpecDice: roll_specific is called with at most this many indices
MaxIdxLen == 2
\* The server accepts this many connections
NumConns == 2
\* get_code draws among this many codes, from FirstCode up
NumCodes == 1
\* Spec: the peers send at most this many requests, all together
MaxReqs == 3
\* In the server a die draws 1, except that in the last FreeTurns turns of a
\* game its last FreeDice dice draw a face in 1..RoomMaxFace
FreeTurns == 1
FreeDice == 1
RoomMaxFace == 2
\* A score command names one of the first MaxChoice open categories, the first
\* committed one, or a name that is no category
MaxChoice == 1
\* SpecCard: at most this many successful commits are made on the scorecard
MaxCommits == 2

(***************************************************************************)
(* Program constants.                                                      *)
(***************************************************************************)
NumDice == 5
NumFaces == 6
RollsPerTurn == 3
FirstCode == 1000
None == -1          \* Python's None in a slot that otherwise holds a score >= 0

Seq5(v) == <<v, v, v, v, v>>

(***************************************************************************)
(* dice.py: YahtzeeDice                                                    *)
(***************************************************************************)
YahtzeeDice == [dice |-> Seq5(1), rolls_remaining |-> RollsPerTurn]

Raise(kind, obj) == [err |-> kind, obj |-> obj]
Return(obj) == [err |-> "ok", obj |-> obj]

\* roll_all whose budget check lets a roll through at 0
Dice_roll_all_unchecked(d, r) ==
    IF d.rolls_remaining < 0
    THEN Raise("NoRollsRemaining", d)
    ELSE Return([dice |-> [i \in 1..NumDice |-> r[i]],
                 rolls_remaining |-> d.rolls_remaining - 1])

\* roll_all: every die takes its draw r[i]
Dice_roll_all(d, r) ==
    IF d.rolls_remaining <= 0
    THEN Raise("NoRollsRemaining", d)
    ELSE Return([dice |-> [i \in 1..NumDice |-> r[i]],
                 rolls_remaining |-> d.rolls_remaining - 1])

\* roll_with_keep that rerolls the five dice, whatever the mask
Dice_roll_with_keep_all(d, keep_dice, r) ==
    IF Len(keep_dice) # NumDice
    THEN Raise("InvalidInput", d)
    ELSE IF d.rolls_remaining <= 0
    THEN Raise("NoRollsRemaining", d)
    ELSE Return([dice |-> [i \in 1..NumDice |-> r[i]],
                 rolls_remaining |-> d.rolls_remaining - 1])

\* roll_with_keep: the length check comes first, then the budget check
Dice_roll_with_keep(d, keep_dice, r) ==
    IF Len(keep_dice) # NumDice
    THEN Raise("InvalidInput", d)
    ELSE IF d.rolls_remaining <= 0
    THEN Raise("NoRollsRemaining", d)
    ELSE Return([dice |-> [i \in 1..NumDice |-> IF keep_dice[i] THEN d.dice[i] ELSE r[i]],
                 rolls_remaining |-> d.rolls_remaining - 1])

\* The loop of roll_specific: it stops at the first index outside 0..4, the
\* dice before that index already rerolled.
RECURSIVE SpecificLoop(_, _, _)
SpecificLoop(faces, dice_indices, r) ==
    IF dice_indices = <<>>
    THEN [bad |-> FALSE, dice |-> faces]
    ELSE LET index == Head(dice_indices) IN
         IF ~(0 <= index /\ index <= 4)
         THEN [bad |-> TRUE, dice |-> faces]
         ELSE SpecificLoop([faces EXCEPT ![index + 1] = r[index + 1]],
                           Tail(dice_indices), r)

Dice_roll_specific(d, dice_indices, r) ==
    IF d.rolls_remaining <= 0
    THEN Raise("NoRollsRemaining", d)
    ELSE LET l == SpecificLoop(d.dice, dice_indices, r) IN
         IF l.bad
         THEN Raise("InvalidInput", [d EXCEPT !.dice = l.dice])
         ELSE Return([dice |-> l.dice, rolls_remaining |-> d.rolls_remaining - 1])

Dice_start_new_turn(d) == [d EXCEPT !.rolls_remaining = RollsPerTurn]

Dice_can_roll(d) == d.rolls_remaining > 0

(***************************************************************************)
(* scorecard.py: YahtzeeScorecard                                          *)
(***************************************************************************)
UpperOrder == <<"ones", "twos", "threes", "fours", "fives", "sixes">>
LowerOrder == <<"three_of_kind", "four_of_kind", "full_house", "small_straight",
                "large_straight", "yahtzee", "chance">>
\* The 13 categories in the order get_all_scores lists them
CategoryOrder == UpperOrder \o LowerOrder
UpperCats == {UpperOrder[i] : i \in 1..Len(UpperOrder)}
LowerCats == {LowerOrder[i] : i \in 1..Len(LowerOrder)}
Categories == UpperCats \cup LowerCats

YahtzeeScorecard ==
    [upper_scores |-> [c \in UpperCats |-> None],
     lower_scores |-> [c \in LowerCats |-> None],
     yahtzee_bonus_count |-> 0]

get_all_scores(sc) ==
    [c \in Categories |-> IF c \in UpperCats THEN sc.upper_scores[c] ELSE sc.lower_scores[c]]

\* is_category_available that only asks whether the category exists
is_category_available_known(sc, category) == category \in Categories

is_category_available(sc, category) ==
    category \in Categories /\ get_all_scores(sc)[category] = None

\* dice.count(v)
Count(dice, v) == Cardinality({i \in 1..Len(dice) : dice[i] = v})
RECURSIVE SumSeq(_)
SumSeq(q) == IF q = <<>> THEN 0 ELSE Head(q) + SumSeq(Tail(q))
FaceSet(dice) == {dice[i] : i \in 1..Len(dice)}

\* Lines 78-80 without has_two: any three equal faces make a full house
IsFullHouse_three(dice) ==
    LET counts(v) == Count(dice, v)
        has_three == \E v \in 1..6 : counts(v) = 3
    IN  has_three /\ Cardinality({v \in 1..6 : counts(v) = 3}) = 1

\* The condition of line 80
IsFullHouse(dice) ==
    LET counts(v) == Count(dice, v)
        has_three == \E v \in 1..6 : counts(v) = 3
        has_two == \E v \in 1..6 : counts(v) = 2
    IN  has_three /\ has_two /\ Cardinality({v \in 1..6 : counts(v) = 3}) = 1

\* Lines 87-91 with the test of the large straight: the faces are the straight
IsSmallStraight_exact(dice) ==
    \E straight \in {{1, 2, 3, 4}, {2, 3, 4, 5}, {3, 4, 5, 6}} : straight = FaceSet(dice)

\* Lines 87-91: some small straight is a subset of the faces
IsSmallStraight(dice) ==
    \E straight \in {{1, 2, 3, 4}, {2, 3, 4, 5}, {3, 4, 5, 6}} : straight \subseteq FaceSet(dice)

\* Lines 95-96: the faces are one of the two large straights
IsLargeStraight(dice) ==
    \E straight \in {{1, 2, 3, 4, 5}, {2, 3, 4, 5, 6}} : straight = FaceSet(dice)

\* The score calculate_possible_scores computes for one category
CategoryScore(category, dice) ==
    LET counts(v) == Count(dice, v)
        dice_sum == SumSeq(dice)
    IN  CASE category \in UpperCats ->
                LET value == CHOOSE v \in 1..6 : UpperOrder[v] = category
                IN  value * counts(value)
          [] category = "three_of_kind" ->
                IF \E v \in 1..6 : counts(v) >= 3 THEN dice_sum ELSE 0
          [] category = "four_of_kind" ->
                IF \E v \in 1..6 : counts(v) >= 4 THEN dice_sum ELSE 0
          [] category = "full_house" ->
                IF IsFullHouse(dice) THEN 25 ELSE 0
          [] category = "small_straight" ->
                IF IsSmallStraight(dice) THEN 30 ELSE 0
          [] category = "large_straight" ->
                IF IsLargeStraight(dice) THEN 40 ELSE 0
          [] category = "yahtzee" ->
                IF \E v \in 1..6 : counts(v) = 5 THEN 50 ELSE 0
          [] category = "chance" -> dice_sum

\* A dict: the categories still open, each with its score for these dice
calculate_possible_scores(sc, dice) ==
    [c \in {k \in Categories : is_category_available(sc, k)} |-> CategoryScore(c, dice)]

\* score_category that writes the slot whether or not it is committed
Card_score_category_overwrite(sc, category, dice) ==
    IF category \notin Categories
    THEN [ok |-> FALSE, obj |-> sc]
    ELSE [ok |-> TRUE,
          obj |-> IF category \in UpperCats
                  THEN [sc EXCEPT !.upper_scores[category] = CategoryScore(category, dice)]
                  ELSE [sc EXCEPT !.lower_scores[category] = CategoryScore(category, dice)]]

\* Lines 121-137 with a bonus for every commit made once yahtzee holds 50,
\* whatever the faces
CommitScore_anyfaces(sc, category, dice, possible_scores) ==
    IF category \notin DOMAIN possible_scores
    THEN [ok |-> FALSE, obj |-> sc]
    ELSE LET scored ==
                 IF category \in UpperCats
                 THEN [sc EXCEPT !.upper_scores[category] = possible_scores[category]]
                 ELSE [sc EXCEPT !.lower_scores[category] = possible_scores[category]]
         IN  [ok |-> TRUE,
              obj |-> IF category # "yahtzee" /\ scored.lower_scores["yahtzee"] = 50
                      THEN [scored EXCEPT !.yahtzee_bonus_count = @ + 1]
                      ELSE scored]

\* Lines 121-137 of score_category, possible_scores being the dict of line 120
CommitScore(sc, category, dice, possible_scores) ==
    IF category \notin DOMAIN possible_scores
    THEN [ok |-> FALSE, obj |-> sc]
    ELSE LET scored ==
                 IF category \in UpperCats
                 THEN [sc EXCEPT !.upper_scores[category] = possible_scores[category]]
                 ELSE [sc EXCEPT !.lower_scores[category] = possible_scores[category]]
             bonus ==
                 /\ category # "yahtzee"
                 /\ \E v \in 1..6 : Count(dice, v) = 5
                 /\ scored.lower_scores["yahtzee"] = 50
         IN  [ok |-> TRUE,
              obj |-> IF bonus
                      THEN [scored EXCEPT !.yahtzee_bonus_count = @ + 1]
                      ELSE scored]

\* [ok |-> the value returned, obj |-> the scorecard after the call]
Card_score_category(sc, category, dice) ==
    IF ~is_category_available(sc, category)
    THEN [ok |-> FALSE, obj |-> sc]
    ELSE CommitScore(sc, category, dice, calculate_possible_scores(sc, dice))

SumScores(f) ==
    LET RECURSIVE Sum(_)
        Sum(S) == IF S = {} THEN 0
                  ELSE LET c == CHOOSE x \in S : TRUE IN f[c] + Sum(S \ {c})
    IN  Sum({c \in DOMAIN f : f[c] # None})

calculate_upper_total(sc) == SumScores(sc.upper_scores)
\* The bonus given only above 63
calculate_upper_bonus_over(sc) == IF calculate_upper_total(sc) > 63 THEN 35 ELSE 0

calculate_upper_bonus(sc) == IF calculate_upper_total(sc) >= 63 THEN 35 ELSE 0
calculate_lower_total(sc) == SumScores(sc.lower_scores)
\* 50 for every additional yahtzee
calculate_yahtzee_bonus_half(sc) == sc.yahtzee_bonus_count * 50

calculate_yahtzee_bonus(sc) == sc.yahtzee_bonus_count * 100
calculate_grand_total(sc) ==
    calculate_upper_total(sc) + calculate_upper_bonus(sc)
        + calculate_lower_total(sc) + calculate_yahtzee_bonus(sc)

\* is_complete that looks at the upper section only
Card_is_complete_upper(sc) == \A c \in UpperCats : sc.upper_scores[c] # None

Card_is_complete(sc) == \A c \in Categories : get_all_scores(sc)[c] # None

(***************************************************************************)
(* game.py: YahtzeeGame.  player_name is the key the room files the game   *)
(* under; max_turns is never assigned after __init__.                      *)
(***************************************************************************)
max_turns == 13

YahtzeeGame ==
    [scorecard |-> YahtzeeScorecard,
     dice |-> YahtzeeDice,
     current_turn |-> 1,
     game_complete |-> FALSE]

\* start_new_turn that resets the budget and makes no roll
Game_start_new_turn_noroll(g, r) ==
    IF g.game_complete
    THEN Raise("GameComplete", g)
    ELSE [err |-> "ok", obj |-> [g EXCEPT !.dice = Dice_start_new_turn(g.dice)]]

\* start_new_turn: reset the budget, then the first roll of the turn
Game_start_new_turn(g, r) ==
    IF g.game_complete
    THEN Raise("GameComplete", g)
    ELSE LET res == Dice_roll_all(Dice_start_new_turn(g.dice), r) IN
         [err |-> res.err, obj |-> [g EXCEPT !.dice = res.obj]]

\* roll_dice that does not look at game_complete
Game_roll_dice_late(g, keep_dice, r) ==
    LET res == Dice_roll_with_keep(g.dice, keep_dice, r) IN
    [err |-> res.err, obj |-> [g EXCEPT !.dice = res.obj]]

\* roll_dice(keep_dice), keep_dice never None when the server calls it
Game_roll_dice(g, keep_dice, r) ==
    IF g.game_complete
    THEN Raise("GameComplete", g)
    ELSE LET res == Dice_roll_with_keep(g.dice, keep_dice, r) IN
         [err |-> res.err, obj |-> [g EXCEPT !.dice = res.obj]]

\* [ok |-> the value returned, obj |-> the game after the call]
Game_score_category(g, category, r) ==
    IF g.game_complete
    THEN [ok |-> FALSE, obj |-> g]
    ELSE LET res == Card_score_category(g.scorecard, category, g.dice.dice) IN
         IF ~res.ok
         THEN [ok |-> FALSE, obj |-> [g EXCEPT !.scorecard = res.obj]]
         ELSE LET turned == [g EXCEPT !.scorecard = res.obj, !.current_turn = @ + 1] IN
              IF turned.current_turn > max_turns \/ Card_is_complete(turned.scorecard)
              THEN [ok |-> TRUE, obj |-> [turned EXCEPT !.game_complete = TRUE]]
              ELSE [ok |-> TRUE, obj |-> Game_start_new_turn(turned, r).obj]

get_current_score(g) == calculate_grand_total(g.scorecard)

(***************************************************************************)
(* A Python dict: the sequence of its items [k, v] in insertion order.     *)
(***************************************************************************)
DictKeys(d) == {d[i].k : i \in 1..Len(d)}
DictGet(d, k) == d[CHOOSE i \in 1..Len(d) : d[i].k = k].v
DictSet(d, k, v) ==
    IF k \in DictKeys(d)
    THEN [i \in 1..Len(d) |-> IF d[i].k = k THEN [k |-> k, v |-> v] ELSE d[i]]
    ELSE Append(d, [k |-> k, v |-> v])
\* max that keeps the last of the largest values instead of the first
PyMaxKeyLast(d) ==
    LET best == CHOOSE i \in 1..Len(d) :
                    /\ \A j \in 1..Len(d) : d[j].v <= d[i].v
                    /\ \A j \in (i + 1)..Len(d) : d[j].v < d[i].v
    IN  d[best].k

\* max(d, key=d.get): the first key, in iteration order, whose value is largest
PyMaxKey(d) ==
    LET best == CHOOSE i \in 1..Len(d) :
                    /\ \A j \in 1..Len(d) : d[j].v <= d[i].v
                    /\ \A j \in 1..(i - 1) : d[j].v < d[i].v
    IN  d[best].k

\* list.remove(x): the first occurrence goes
ListRemove(l, x) ==
    LET at == CHOOSE i \in 1..Len(l) : l[i] = x /\ \A j \in 1..(i - 1) : l[j] # x
    IN  [i \in 1..(Len(l) - 1) |-> IF i < at THEN l[i] ELSE l[i + 1]]
InList(l, x) == \E i \in 1..Len(l) : l[i] = x

(***************************************************************************)
(* gamestate.py: GameState                                                 *)
(***************************************************************************)
NoWinner == "None"
NoRoom == 0

\* keep is the attribute the server adds on a score command; <<>> before that
GameState(room_code) ==
    [room_code |-> room_code,
     players |-> <<>>,
     scores |-> <<>>,
     turn_index |-> 0,
     ready |-> FALSE,
     final_scores |-> <<>>,
     winner |-> NoWinner,
     keep |-> <<>>]

\* is_full that lets a third player in
is_full_late(room) == Len(room.players) > 2

is_full(room) == Len(room.players) = 2
current_player(room) == room.players[room.turn_index + 1]
next_turn(room) == [room EXCEPT !.turn_index = (room.turn_index + 1) % Len(room.players)]

(***************************************************************************)
(* server.py.  One thread runs client(conn, addr) per connection.  The     *)
(* server's state is gathered in one record S; each step of a thread is an *)
(* operator from S to the state after the step.  A `with lock` block is    *)
(* one step; outside the lock every access to shared state is a step of    *)
(* its own.  An exception leaves the request loop for the finally block    *)
(* (pc "cleanup"), whatever raised it.                                     *)
(***************************************************************************)
Conns == 1..NumConns
Codes == FirstCode..(FirstCode + NumCodes - 1)
Names == {"ann", "bob"}

Msg(action, name, code, player, command, keep, category) ==
    [action |-> action, name |-> name, code |-> code, player |-> player,
     command |-> command, keep |-> keep, category |-> category]
NoReq == Msg("none", "", NoRoom, "", "", <<>>, "")
CreateMsg(name) == Msg("create", name, NoRoom, "", "", <<>>, "")
JoinMsg(code, name) == Msg("join", name, code, "", "", <<>>, "")
StateRequestMsg == Msg("state_request", "", NoRoom, "", "", <<>>, "")
\* What is left of a request once broadcast_state(room_code) is entered
BroadcastOf(code) == Msg("broadcast", "", code, "", "", <<>>, "")
RollMsg(room, player, keep) == Msg("command", "", room, player, "roll", keep, "")
ScoreMsg(room, player, category) == Msg("command", "", room, player, "score", <<>>, category)

\* The locals of a thread: room is the room_code of the GameState its variable
\* `room` holds (NoRoom for None), req the request it is handling, and the
\* locals of broadcast_state: room_data (an object identity), the position of
\* the loop over room_data['clients'], and disconnected_clients.
IdleLoc(room) ==
    [room |-> room, req |-> NoReq, room_data |-> 0, idx |-> 0, disconnected_clients |-> <<>>]

State ==
    [rooms |-> rooms, heap |-> heap, pc |-> pc, loc |-> loc,
     broken |-> broken, resp |-> resp, wlock |-> wlock, reqs |-> reqs]

ServerStart(budget) ==
    [rooms |-> [code \in Codes |-> NoRoom],
     heap |-> <<>>,
     pc |-> [c \in Conns |-> "recv"],
     loc |-> [c \in Conns |-> IdleLoc(NoRoom)],
     broken |-> [c \in Conns |-> FALSE],
     resp |-> [c \in Conns |-> "none"],
     wlock |-> [c \in Conns |-> FALSE],
     reqs |-> budget]

\* No Room pickled, no update received
NoSnap == GameState(NoRoom)

\* Object identities: a dict no variable refers to any more is freed and its
\* identity may be taken again.
Freed == [clients |-> <<>>, state |-> GameState(NoRoom)]
Live(S) ==
    ({S.rooms[code] : code \in Codes} \cup {S.loc[c].room_data : c \in Conns}) \ {0}
Collect(S) ==
    LET n == IF Live(S) = {} THEN 0 ELSE CHOOSE i \in Live(S) : \A j \in Live(S) : j <= i
    IN  [S EXCEPT !.heap = [i \in 1..n |-> IF i \in Live(S) THEN S.heap[i] ELSE Freed]]
NewId(S) ==
    CHOOSE i \in 1..(Len(S.heap) + 1) :
        i \notin Live(S) /\ \A j \in 1..(i - 1) : j \in Live(S)
Put(h, id, obj) == IF id = Len(h) + 1 THEN Append(h, obj) ELSE [h EXCEPT ![id] = obj]

RoomOf(S, code) == S.heap[S.rooms[code]].state
ClientsOf(S, code) == S.heap[S.rooms[code]].clients

\* An exception in the request loop: `except:` then `finally:`
Except(S, c) ==
    [S EXCEPT !.pc[c] = "cleanup",
              !.loc[c].room_data = 0, !.loc[c].idx = 0, !.loc[c].disconnected_clients = <<>>]

\* get_code (lines 14-19) returned `code`, found free under the lock
get_code(S, c, name, code) ==
    [S EXCEPT !.pc[c] = "create",
              !.loc[c].req = [CreateMsg(name) EXCEPT !.code = code],
              !.reqs = @ - 1]

\* create, lines 36-42: build the room, register it under the lock, answer
create_register(S, c) ==
    LET code == S.loc[c].req.code
        name == S.loc[c].req.name
        room == [GameState(code) EXCEPT !.players = Append(@, name),
                                        !.scores = DictSet(@, name, YahtzeeGame)]
        id == NewId(S)
        T == [S EXCEPT !.rooms[code] = id,
                       !.heap = Put(S.heap, id, [clients |-> <<c>>, state |-> room]),
                       !.loc[c].room = code]
    IN  IF T.broken[c]
        THEN Except(T, c)
        ELSE [T EXCEPT !.resp[c] = "created", !.wlock[c] = FALSE,
                       !.pc[c] = "recv", !.loc[c] = IdleLoc(code)]

\* join, lines 45-61, up to the call of broadcast_state: the error is sent
\* at line 50, inside the `with lock` block of line 48; 'joined' is sent at
\* line 61, after the block
join(S, c, code, name) ==
    LET R == [S EXCEPT !.reqs = @ - 1, !.loc[c].req = JoinMsg(code, name)] IN
    IF R.rooms[code] = NoRoom \/ is_full(RoomOf(R, code))
    THEN IF R.broken[c]
         THEN Except(R, c)
         ELSE [R EXCEPT !.resp[c] = "error", !.wlock[c] = TRUE,
                        !.loc[c] = IdleLoc(R.loc[c].room)]
    ELSE LET id == R.rooms[code]
             room == [RoomOf(R, code) EXCEPT !.players = Append(@, name),
                                             !.scores = DictSet(@, name, YahtzeeGame),
                                             !.ready = TRUE]
             T == [R EXCEPT !.heap[id] = [clients |-> Append(@.clients, c), state |-> room],
                            !.loc[c].room = code]
         IN  IF T.broken[c]
             THEN Except(T, c)
             ELSE [T EXCEPT !.resp[c] = "joined", !.wlock[c] = FALSE, !.pc[c] = "bc_lookup"]

\* state_request, lines 64-65
state_request(S, c) ==
    LET R == [S EXCEPT !.reqs = @ - 1] IN
    IF R.loc[c].room # NoRoom
    THEN [R EXCEPT !.pc[c] = "bc_lookup",
                   !.loc[c].req = [StateRequestMsg EXCEPT !.code = R.loc[c].room]]
    ELSE R

\* The score branch, lines 79-91, on the room the command names
score_branch(room, player, category, r) ==
    LET res == Game_score_category(DictGet(room.scores, player), category, r)
        scored == [room EXCEPT !.scores = DictSet(@, player, res.obj),
                               !.keep = Seq5(FALSE)]
        turned == next_turn(scored)
        all_done == \A i \in 1..Len(turned.scores) : turned.scores[i].v.game_complete
        scores == [i \in 1..Len(turned.scores) |->
                      [k |-> turned.scores[i].k, v |-> get_current_score(turned.scores[i].v)]]
    IN  IF all_done
        THEN [turned EXCEPT !.winner = PyMaxKey(scores), !.final_scores = scores]
        ELSE turned

\* command, lines 68-91, up to the call of broadcast_state
command(S, c, msg, r) ==
    LET R == [S EXCEPT !.reqs = @ - 1, !.loc[c].req = msg] IN
    IF msg.code \notin Codes \/ R.rooms[msg.code] = NoRoom
    THEN Except(R, c)
    ELSE LET id == R.rooms[msg.code]
             room == RoomOf(R, msg.code)
         IN  IF msg.player \notin DictKeys(room.scores)
             THEN Except(R, c)
             ELSE IF msg.command = "roll"
             THEN LET res == Game_roll_dice(DictGet(room.scores, msg.player), msg.keep, r) IN
                  IF res.err # "ok"
                  THEN Except(R, c)
                  ELSE [R EXCEPT !.heap[id].state.scores = DictSet(@, msg.player, res.obj),
                                 !.pc[c] = "bc_lookup"]
             ELSE IF msg.command = "score"
             THEN [R EXCEPT !.heap[id].state = score_branch(room, msg.player, msg.category, r),
                            !.pc[c] = "bc_lookup"]
             ELSE [R EXCEPT !.pc[c] = "bc_lookup"]

\* broadcast_state, lines 109-114: look the room up under the lock
bc_lookup(S, c) ==
    LET code == S.loc[c].req.code IN
    IF S.rooms[code] = NoRoom
    THEN Except(S, c)
    ELSE [S EXCEPT !.pc[c] = "bc_send",
                   !.loc[c].req = BroadcastOf(code),
                   !.loc[c].room_data = S.rooms[code],
                   !.loc[c].idx = 1,
                   !.loc[c].disconnected_clients = <<>>]

\* lines 117-121: one turn of the loop over room_data['clients'], a live list
bc_send(S, c) ==
    LET clients == S.heap[S.loc[c].room_data].clients
        idx == S.loc[c].idx
    IN  IF idx > Len(clients)
        THEN [S EXCEPT !.pc[c] = "bc_evict"]
        ELSE IF S.broken[clients[idx]]
        THEN [S EXCEPT !.loc[c].idx = idx + 1,
                       !.loc[c].disconnected_clients = Append(@, clients[idx])]
        ELSE [S EXCEPT !.loc[c].idx = idx + 1]

\* lines 123-124: one turn of the loop over disconnected_clients
bc_evict(S, c) ==
    LET id == S.loc[c].room_data
        dc == Head(S.loc[c].disconnected_clients)
    IN  IF ~InList(S.heap[id].clients, dc)
        THEN Except(S, c)
        ELSE [S EXCEPT !.heap[id].clients = ListRemove(@, dc),
                       !.loc[c].disconnected_clients = Tail(@)]

\* line 128: the test `not room_data['clients']`
bc_check(S, c) ==
    IF S.heap[S.loc[c].room_data].clients = <<>>
    THEN [S EXCEPT !.pc[c] = "bc_del"]
    ELSE [S EXCEPT !.pc[c] = "recv", !.loc[c] = IdleLoc(S.loc[c].room)]

\* line 129: `del rooms[room_code]`, whatever is registered under the code
bc_del(S, c) ==
    LET code == S.loc[c].req.code IN
    IF S.rooms[code] = NoRoom
    THEN Except(S, c)
    ELSE [S EXCEPT !.rooms[code] = NoRoom, !.pc[c] = "recv", !.loc[c] = IdleLoc(S.loc[c].room)]

\* The finally block, lines 97-105
RECURSIVE CleanupLoop(_, _, _)
CleanupLoop(S, c, codes) ==
    IF codes = {}
    THEN S
    ELSE LET code == CHOOSE x \in codes : TRUE
             id == S.rooms[code]
         IN  IF id # NoRoom /\ InList(S.heap[id].clients, c)
             THEN LET left == ListRemove(S.heap[id].clients, c)
                      T == [S EXCEPT !.heap[id].clients = left]
                  IN  CleanupLoop(IF left = <<>> THEN [T EXCEPT !.rooms[code] = NoRoom] ELSE T,
                                  c, codes \ {code})
             ELSE CleanupLoop(S, c, codes \ {code})

cleanup(S, c) ==
    [CleanupLoop(S, c, Codes) EXCEPT !.pc[c] = "closed",
                                     !.loc[c] = IdleLoc(NoRoom),
                                     !.broken[c] = TRUE]

\* recv returns no data, or raises: the peer is gone
hangup(S, c) == Except(S, c)

\* The server's variables take the values of S
InstallServer(S) ==
    LET T == Collect(S) IN
    /\ rooms' = T.rooms
    /\ heap' = T.heap
    /\ pc' = T.pc
    /\ loc' = T.loc
    /\ broken' = T.broken
    /\ resp' = T.resp
    /\ wlock' = T.wlock
    /\ reqs' = T.reqs

Install(S) == InstallServer(S) /\ UNCHANGED <<dvars, cvars, gvars, snap, seen>>

(***************************************************************************)
(* SpecDice: one dice set, every method called with every input.           *)
(* dcall names the call made by the last step, the length of its sequence  *)
(* argument (0 when it takes none), the mask when the call is              *)
(* roll_with_keep, and its outcome.                                        *)
(***************************************************************************)
\* The draws of one call: random.randint is called for the positions in P only
DrawsOn(P, maxFace) ==
    {[i \in 1..NumDice |-> IF i \in P THEN f[i] ELSE 1] : f \in [P -> 1..maxFace]}
KeepMasks == [1..NumDice -> BOOLEAN]
BadMasks == {<<>>, <<TRUE, FALSE, TRUE, FALSE>>, <<FALSE, FALSE, FALSE, FALSE, FALSE, TRUE>>}
Rerolled(keep) == IF Len(keep) = NumDice THEN {i \in 1..NumDice : ~keep[i]} ELSE {}
RECURSIVE SeqsUpTo(_, _)
SeqsUpTo(S, n) ==
    IF n = 0 THEN {<<>>}
    ELSE LET shorter == SeqsUpTo(S, n - 1) IN
         shorter \cup {Append(s, x) : s \in {t \in shorter : Len(t) = n - 1}, x \in S}
IndexLists == SeqsUpTo(-1..5, MaxIdxLen)
Named(idx) == {idx[k] + 1 : k \in 1..Len(idx)} \cap (1..NumDice)
RollOps == {"roll_all", "roll_with_keep", "roll_specific"}

DiceStart ==
    /\ dset = YahtzeeDice
    /\ dcall = [op |-> "__init__", len |-> 0, keep |-> <<>>, err |-> "ok"]

ServerIs(S) ==
    /\ rooms = S.rooms
    /\ heap = S.heap
    /\ pc = S.pc
    /\ loc = S.loc
    /\ broken = S.broken
    /\ resp = S.resp
    /\ wlock = S.wlock
    /\ snap = [c \in Conns |-> NoSnap]
    /\ seen = [c \in Conns |-> NoSnap]
    /\ reqs = S.reqs

\* No dict returned: calculate_possible_scores has not been called
NoScores == [c \in {} |-> 0]

CardStart ==
    /\ card = YahtzeeScorecard
    /\ hand = Seq5(1)
    /\ ccall = [op |-> "__init__", category |-> "", ok |-> TRUE, scores |-> NoScores, n |-> 0]

GameStart ==
    /\ game = YahtzeeGame
    /\ gcall = [op |-> "__init__", category |-> "", err |-> "ok", ok |-> TRUE]

DiceInit == DiceStart /\ CardStart /\ GameStart /\ ServerIs(ServerStart(0))

DiceRollAll ==
    \E r \in DrawsOn(1..NumDice, DiceMaxFace) :
        LET res == Dice_roll_all(dset, r) IN
        /\ dset' = res.obj
        /\ dcall' = [op |-> "roll_all", len |-> 0, keep |-> <<>>, err |-> res.err]
        /\ UNCHANGED <<svars, cvars, gvars>>

DiceRollWithKeep ==
    \E keep \in KeepMasks \cup BadMasks :
        \E r \in DrawsOn(Rerolled(keep), DiceMaxFace) :
            LET res == Dice_roll_with_keep(dset, keep, r) IN
            /\ dset' = res.obj
            /\ dcall' = [op |-> "roll_with_keep", len |-> Len(keep), keep |-> keep,
                         err |-> res.err]
            /\ UNCHANGED <<svars, cvars, gvars>>

DiceRollSpecific ==
    \E idx \in IndexLists :
        \E r \in DrawsOn(Named(idx), DiceMaxFace) :
            LET res == Dice_roll_specific(dset, idx, r) IN
            /\ dset' = res.obj
            /\ dcall' = [op |-> "roll_specific", len |-> Len(idx), keep |-> <<>>, err |-> res.err]
            /\ UNCHANGED <<svars, cvars, gvars>>

DiceStartNewTurn ==
    /\ dset' = Dice_start_new_turn(dset)
    /\ dcall' = [op |-> "start_new_turn", len |-> 0, keep |-> <<>>, err |-> "ok"]
    /\ UNCHANGED <<svars, cvars, gvars>>

DiceNext == DiceRollAll \/ DiceRollWithKeep \/ DiceRollSpecific \/ DiceStartNewTurn

SpecDice == DiceInit /\ [][DiceNext]_vars

(***************************************************************************)
(* C6                                                                      *)
(***************************************************************************)
C6_Range == dset.rolls_remaining \in 0..RollsPerTurn

C6_Decrement ==
    (dcall'.op \in RollOps /\ dcall'.err = "ok")
        => dset'.rolls_remaining = dset.rolls_remaining - 1

C6_OnlyNewTurnRaises ==
    dset'.rolls_remaining > dset.rolls_remaining
        => dcall'.op = "start_new_turn" /\ dset'.rolls_remaining = RollsPerTurn

\* C6 as stated: every roll attempted with no rolls left fails with the
\* no-rolls-remaining error
C6_ExhaustedAsStated ==
    (dcall'.op \in RollOps /\ dset.rolls_remaining = 0)
        => dcall'.err = "NoRollsRemaining" /\ dset' = dset

\* C6 as amended: roll_with_keep checks the length of its mask before the budget
C6_Exhausted ==
    (dcall'.op \in RollOps /\ dset.rolls_remaining = 0)
        => /\ dset' = dset
           /\ dcall'.err = IF dcall'.op = "roll_with_keep" /\ dcall'.len # NumDice
                           THEN "InvalidInput" ELSE "NoRollsRemaining"

\* C6 (original statement): rolls_remaining stays in 0..3; a successful roll
\* decrements it by exactly one; every roll attempted at 0 fails with the
\* no-rolls-remaining error and changes nothing; only start_new_turn raises
\* it, to exactly 3.
C6_Original ==
    []C6_Range /\ [][C6_Decrement /\ C6_ExhaustedAsStated /\ C6_OnlyNewTurnRaises]_vars

\* C6 (amended): as the original, except that a roll_with_keep whose mask is
\* not of length 5 fails at 0 rolls remaining with the invalid-input error
\* (still changing nothing); every other roll attempted at 0 fails with the
\* no-rolls-remaining error.
C6_RollBudget ==
    []C6_Range /\ [][C6_Decrement /\ C6_Exhausted /\ C6_OnlyNewTurnRaises]_vars

\* A fourth roll of a turn has been attempted and has failed
C6_Witness ==
    /\ dset.rolls_remaining = 0
    /\ dcall.op \in RollOps
    /\ dcall.err = "NoRollsRemaining"

(***************************************************************************)
(* Spec: the server with its connection threads running concurrently.      *)
(* Every peer sends up to MaxReqs requests, any request at any time, and   *)
(* may vanish at any time.                                                 *)
(***************************************************************************)
ServerMasks == {Seq5(FALSE), <<FALSE, FALSE, FALSE, FALSE, TRUE>>, <<FALSE, FALSE, FALSE, FALSE>>}
FreePositions == (NumDice - FreeDice + 1)..NumDice
\* The draws of a roll made in turn `turn` of a game
Draws(turn, P) ==
    IF turn > max_turns - FreeTurns
    THEN DrawsOn(P \cap FreePositions, RoomMaxFace)
    ELSE {Seq5(1)}

\* The game a command names, a fresh one when it names none
TargetGame(S, code, player) ==
    IF S.rooms[code] # NoRoom /\ player \in DictKeys(RoomOf(S, code).scores)
    THEN DictGet(RoomOf(S, code).scores, player)
    ELSE YahtzeeGame

ScoreChoices(g) ==
    LET open(i) == is_category_available(g.scorecard, CategoryOrder[i])
        N == Len(CategoryOrder)
    IN  {CategoryOrder[i] : i \in {j \in 1..N :
                open(j) /\ Cardinality({k \in 1..(j - 1) : open(k)}) < MaxChoice}}
        \cup {CategoryOrder[i] : i \in {j \in 1..N :
                ~open(j) /\ \A k \in 1..(j - 1) : open(k)}}
        \cup {"bogus"}

Init == DiceStart /\ CardStart /\ GameStart /\ ServerIs(ServerStart(MaxReqs))

CanRecv(c) == pc[c] = "recv" /\ reqs > 0

Create ==
    \E c \in Conns, name \in Names, code \in Codes :
        /\ CanRecv(c)
        /\ rooms[code] = NoRoom
        /\ Install(get_code(State, c, name, code))

Register ==
    \E c \in Conns :
        /\ pc[c] = "create"
        /\ Install(create_register(State, c))

Join ==
    \E c \in Conns, code \in Codes, name \in Names :
        /\ CanRecv(c)
        /\ Install(join(State, c, code, name))

StateRequest ==
    \E c \in Conns :
        /\ CanRecv(c)
        /\ Install(state_request(State, c))

Roll ==
    \E c \in Conns, code \in Codes, player \in Names, keep \in ServerMasks :
        \E r \in Draws(TargetGame(State, code, player).current_turn, Rerolled(keep)) :
            /\ CanRecv(c)
            /\ Install(command(State, c, RollMsg(code, player, keep), r))

Score ==
    \E c \in Conns, code \in Codes, player \in Names :
        \E category \in ScoreChoices(TargetGame(State, code, player)),
           r \in Draws(TargetGame(State, code, player).current_turn + 1, 1..NumDice) :
            /\ CanRecv(c)
            /\ Install(command(State, c, ScoreMsg(code, player, category), r))

BcastLookup ==
    \E c \in Conns :
        /\ pc[c] = "bc_lookup"
        /\ Install(bc_lookup(State, c))

BcastSend ==
    \E c \in Conns :
        /\ pc[c] = "bc_send"
        /\ Install(bc_send(State, c))

BcastEvict ==
    \E c \in Conns :
        /\ pc[c] = "bc_evict"
        /\ loc[c].disconnected_clients # <<>>
        /\ Install(bc_evict(State, c))

BcastCheck ==
    \E c \in Conns :
        /\ pc[c] = "bc_evict"
        /\ loc[c].disconnected_clients = <<>>
        /\ Install(bc_check(State, c))

BcastDelete ==
    \E c \in Conns :
        /\ pc[c] = "bc_del"
        /\ Install(bc_del(State, c))

Hangup ==
    \E c \in Conns :
        /\ pc[c] = "recv"
        /\ broken[c]
        /\ Install(hangup(State, c))

Cleanup ==
    \E c \in Conns :
        /\ pc[c] = "cleanup"
        /\ Install(cleanup(State, c))

\* The peer of a connection vanishes: from now on writes to the socket fail
Drop ==
    \E c \in Conns :
        /\ ~broken[c]
        /\ Install([State EXCEPT !.broken[c] = TRUE])

Steps ==
    \/ BcastLookup \/ BcastSend \/ BcastEvict \/ BcastCheck \/ BcastDelete
    \/ Hangup \/ Cleanup \/ Drop

Next == Create \/ Register \/ Join \/ StateRequest \/ Roll \/ Score \/ Steps

Spec == Init /\ [][Next]_vars

(***************************************************************************)
(* A thread run on its own from where it stands until it waits in recv     *)
(* again or has closed its connection.                                     *)
(***************************************************************************)
RECURSIVE Run(_, _)
Run(S, c) ==
    CASE S.pc[c] = "create" -> Run(create_register(S, c), c)
      [] S.pc[c] = "bc_lookup" -> Run(bc_lookup(S, c), c)
      [] S.pc[c] = "bc_send" -> Run(bc_send(S, c), c)
      [] S.pc[c] = "bc_evict" ->
            Run(IF S.loc[c].disconnected_clients # <<>> THEN bc_evict(S, c) ELSE bc_check(S, c), c)
      [] S.pc[c] = "bc_del" -> Run(bc_del(S, c), c)
      [] S.pc[c] = "cleanup" -> Run(cleanup(S, c), c)
      [] OTHER -> S

(***************************************************************************)
(* SpecRace: a room of two players, as connection 1 creating it for "ann"  *)
(* and connection 2 joining it for "bob" leave it; then each connection    *)
(* sends score commands for its own player, two commands in all, and the   *)
(* threads run concurrently.                                               *)
(***************************************************************************)
RaceRoom ==
    LET created == Run(get_code(ServerStart(0), 1, "ann", FirstCode), 1)
        joined == Run(join(created, 2, FirstCode, "bob"), 2)
    IN  [Collect(joined) EXCEPT !.reqs = 2]

RaceInit == DiceStart /\ CardStart /\ GameStart /\ ServerIs(RaceRoom)

OwnPlayer(c) == IF c = 1 THEN "ann" ELSE "bob"

OpenChoices(g) == ScoreChoices(g) \cap {k \in Categories : is_category_available(g.scorecard, k)}

RaceScore ==
    \E c \in {1, 2} :
        \E category \in OpenChoices(TargetGame(State, FirstCode, OwnPlayer(c))),
           r \in Draws(TargetGame(State, FirstCode, OwnPlayer(c)).current_turn + 1, 1..NumDice) :
            /\ CanRecv(c)
            /\ Install(command(State, c, ScoreMsg(FirstCode, OwnPlayer(c), category), r))

RaceNext == RaceScore \/ Steps

SpecRace == RaceInit /\ [][RaceNext]_vars

(***************************************************************************)
(* SpecMatch: the server handling one request at a time, each from its     *)
(* receipt to the end of the broadcast it causes, with no limit on the     *)
(* number of requests and no peer vanishing: whole games are played.       *)
(* Rooms are created by connection 1 for "ann" (the server tells           *)
(* connections and names apart by equality only), and the responses        *)
(* written are not recorded.                                               *)
(***************************************************************************)
MatchInit == DiceStart /\ CardStart /\ GameStart /\ ServerIs(ServerStart(0))

Idle(c) == pc[c] = "recv"
Handled(S, c) ==
    Install([Run(S, c) EXCEPT !.reqs = 0, !.resp = [d \in Conns |-> "none"],
                              !.wlock = [d \in Conns |-> FALSE]])

MatchCreate ==
    \E c \in {1}, name \in {"ann"}, code \in Codes :
        /\ Idle(c)
        /\ rooms[code] = NoRoom
        /\ Handled(get_code(State, c, name, code), c)

MatchJoin ==
    \E c \in Conns, code \in Codes, name \in Names :
        /\ Idle(c)
        /\ Handled(join(State, c, code, name), c)

MatchRoll ==
    \E c \in Conns, code \in Codes, player \in Names, keep \in ServerMasks :
        \E r \in Draws(TargetGame(State, code, player).current_turn, Rerolled(keep)) :
            /\ Idle(c)
            /\ Handled(command(State, c, RollMsg(code, player, keep), r), c)

MatchScore ==
    \E c \in Conns, code \in Codes, player \in Names :
        \E category \in ScoreChoices(TargetGame(State, code, player)),
           r \in Draws(TargetGame(State, code, player).current_turn + 1, 1..NumDice) :
            /\ Idle(c)
            /\ Handled(command(State, c, ScoreMsg(code, player, category), r), c)

MatchNext == MatchCreate \/ MatchJoin \/ MatchRoll \/ MatchScore

SpecMatch == MatchInit /\ [][MatchNext]_vars

(***************************************************************************)
(* Steps of Spec, as the claims name them.                                 *)
(***************************************************************************)
\* Thread c takes a command off its socket and runs lines 68-91 on it; the
\* command stays in loc[c].req until broadcast_state is entered
CommandStep(c) ==
    /\ pc[c] = "recv"
    /\ pc'[c] \in {"bc_lookup", "cleanup"}
    /\ loc'[c].req.action = "command"

Registered(code) == rooms[code] # NoRoom
Room(code) == heap[rooms[code]].state
Clients(code) == heap[rooms[code]].clients

\* The command of CommandStep(c) names a player of a registered room
NamesPlayer(m) ==
    /\ m.code \in Codes
    /\ Registered(m.code)
    /\ m.player \in DictKeys(Room(m.code).scores)

\* What score_category returns for the score command m, in the state before it
ScoreReturns(m) ==
    Game_score_category(DictGet(Room(m.code).scores, m.player), m.category, Seq5(1)).ok

\* The room of the spec: the GameState without `keep`, the scratch attribute
\* line 82 hangs on it
RoomView(room) == [room EXCEPT !.keep = <<>>]

(***************************************************************************)
(* C1                                                                      *)
(***************************************************************************)
C1_OutOfTurn(c) ==
    LET m == loc'[c].req IN
    /\ CommandStep(c)
    /\ NamesPlayer(m)
    /\ Len(Room(m.code).players) = 2
    /\ m.player # current_player(Room(m.code))

\* C1: in a room with two players a command (roll or score) that names a
\* player other than players[turn_index] is rejected: that player's dice,
\* rolls_remaining, scorecard and turn number and the room's turn_index are
\* unchanged.
C1_TurnOrder ==
    [][\A c \in Conns :
          C1_OutOfTurn(c) =>
              LET m == loc'[c].req IN
              /\ rooms'[m.code] = rooms[m.code]
              /\ DictGet(Room(m.code).scores, m.player)
                     = DictGet(heap'[rooms'[m.code]].state.scores, m.player)
              /\ heap'[rooms'[m.code]].state.turn_index = Room(m.code).turn_index]_vars

(***************************************************************************)
(* C3                                                                      *)
(***************************************************************************)
C3_Step(c) ==
    LET m == loc'[c].req IN
    /\ CommandStep(c)
    /\ NamesPlayer(m)

\* C3: turn_index changes only by a score command whose score_category
\* returned true, and then to (turn_index + 1) mod |players|; a roll leaves
\* turn_index and the rest of the room outside the roller's game unchanged,
\* and a rejected score leaves the whole room unchanged.
C3_TurnAdvance ==
    [][/\ \A code \in Codes :
              (Registered(code) /\ rooms'[code] = rooms[code]
                   /\ heap'[rooms[code]].state.turn_index # Room(code).turn_index)
                  => \E c \in Conns :
                         /\ C3_Step(c)
                         /\ loc'[c].req.code = code
                         /\ loc'[c].req.command = "score"
                         /\ ScoreReturns(loc'[c].req)
                         /\ heap'[rooms[code]].state.turn_index
                                = (Room(code).turn_index + 1) % Len(Room(code).players)
       /\ \A c \in Conns :
              C3_Step(c) =>
                  LET m == loc'[c].req
                      after == heap'[rooms'[m.code]].state
                  IN  /\ rooms'[m.code] = rooms[m.code]
                      /\ m.command = "roll" =>
                             /\ after.turn_index = Room(m.code).turn_index
                             /\ RoomView([after EXCEPT !.scores = Room(m.code).scores])
                                    = RoomView(Room(m.code))
                             /\ \A p \in DictKeys(after.scores) \ {m.player} :
                                    DictGet(after.scores, p) = DictGet(Room(m.code).scores, p)
                      /\ (m.command = "score" /\ ~ScoreReturns(m)) =>
                             RoomView(after) = RoomView(Room(m.code))]_vars

(***************************************************************************)
(* C7                                                                      *)
(***************************************************************************)
\* C7: an error raised while a command is processed (no rolls remaining, a
\* keep mask of the wrong length, a complete game, an unknown room or player)
\* does not end the session: the handler does not leave its request loop, so
\* the connection stays registered and its room stays in the registry.
C7_SessionSurvives ==
    [][\A c \in Conns :
          CommandStep(c) =>
              /\ pc'[c] # "cleanup"
              /\ rooms' = rooms
              /\ \A code \in Codes : Registered(code) => heap'[rooms[code]].clients = Clients(code)]_vars

(***************************************************************************)
(* C8                                                                      *)
(***************************************************************************)
JoinStep(c, code, name) ==
    /\ CanRecv(c)
    /\ Install(join(State, c, code, name))

C8_Rejected(code) == ~Registered(code) \/ Len(Room(code).players) >= 2

C8_AtMostTwo ==
    \A id \in 1..Len(heap) : Len(heap[id].state.players) <= 2

C8_JoinEffect ==
    \A c \in Conns, code \in Codes, name \in Names :
        JoinStep(c, code, name) =>
            IF C8_Rejected(code)
            THEN /\ rooms' = rooms
                 /\ heap' = heap
                 /\ ~broken[c] => resp'[c] = "error" /\ pc'[c] = "recv"
            ELSE LET before == Room(code)
                     after == heap'[rooms[code]].state
                 IN  /\ rooms' = rooms
                     /\ after.players = Append(before.players, name)
                     /\ DictGet(after.scores, name) = YahtzeeGame
                     /\ DictKeys(after.scores) = DictKeys(before.scores) \cup {name}
                     /\ heap'[rooms[code]].clients = Append(Clients(code), c)
                     /\ after.ready
                     /\ ~broken[c] => resp'[c] = "joined"

\* C8: a join for an unknown code or a room that has 2 players is answered
\* with an error and changes neither the registry nor any room; any other
\* join appends the player, creates the player's game, registers the
\* connection and marks the room ready; whatever the interleaving of the
\* threads, no room ever holds more than 2 players.
C8_Join == []C8_AtMostTwo /\ [][C8_JoinEffect]_vars

\* A join has been turned down because the room was full
C8_Witness ==
    \E c \in Conns, code \in Codes :
        /\ resp[c] = "error"
        /\ Registered(code)
        /\ Len(Room(code).players) = 2
        /\ Len(Clients(code)) = 2

(***************************************************************************)
(* C9                                                                      *)
(***************************************************************************)
\* C9: no create registers its room under a code that is a key of the
\* registry at that moment, so no live room's entry is overwritten.
C9_UniqueCodes ==
    [][\A c \in Conns :
          (pc[c] = "create" /\ pc'[c] # "create") => ~Registered(loc[c].req.code)]_vars

(***************************************************************************)
(* C10                                                                     *)
(***************************************************************************)
Quiescent == \A c \in Conns : pc[c] \in {"recv", "closed"}

\* C10: whenever no handler is in the middle of a step, every room in the
\* registry has at least one registered connection.
C10_NoEmptyRoom ==
    Quiescent => \A code \in Codes : Registered(code) => Clients(code) # <<>>

(***************************************************************************)
(* C2                                                                      *)
(***************************************************************************)
BcastStages == {"bc_lookup", "bc_send", "bc_evict", "bc_del"}
Committed(g) == {k \in Categories : ~is_category_available(g.scorecard, k)}

\* C2: when the two threads have each processed one score command, one for
\* each player of the room, both commands in flight at once, exactly one of
\* the two scorecards has been written and turn_index has advanced exactly
\* once (from 0 to 1).
C2_OneAccepted ==
    (reqs = 0 /\ pc[1] \in BcastStages /\ pc[2] \in BcastStages /\ Registered(FirstCode))
        => /\ Cardinality({p \in {"ann", "bob"} :
                  Committed(DictGet(Room(FirstCode).scores, p)) # {}}) = 1
           /\ Room(FirstCode).turn_index = 1

(***************************************************************************)
(* C4                                                                      *)
(***************************************************************************)
AllComplete(room) == \A i \in 1..Len(room.scores) : room.scores[i].v.game_complete
Total(room, p) == calculate_grand_total(DictGet(room.scores, p).scorecard)

C4_Winner(room) ==
    LET P == DictKeys(room.scores) IN
    /\ IF \E p \in P : \A q \in P \ {p} : Total(room, p) > Total(room, q)
       THEN \A q \in P \ {room.winner} : Total(room, room.winner) > Total(room, q)
       ELSE room.winner = room.players[1]
    /\ room.winner \in P
    /\ DictKeys(room.final_scores) = {room.players[i] : i \in 1..Len(room.players)}
    /\ \A p \in P : DictGet(room.final_scores, p) = Total(room, p)

\* C4: when all the games of a room are complete, winner is the player with
\* the strictly highest grand total, players[0] when the totals are equal,
\* and final_scores maps every player to that player's grand total.
C4_WinnerByTotal ==
    \A code \in Codes :
        (Registered(code) /\ AllComplete(Room(code))) => C4_Winner(Room(code))

\* Two players have finished with equal totals
C4_Witness ==
    \E code \in Codes :
        /\ Registered(code)
        /\ AllComplete(Room(code))
        /\ Len(Room(code).scores) = 2
        /\ Total(Room(code), Room(code).players[1]) = Total(Room(code), Room(code).players[2])
        /\ Room(code).winner = Room(code).players[1]

(***************************************************************************)
(* C5                                                                      *)
(***************************************************************************)
\* C5: in every state of a room, winner is set if and only if every game of
\* the room is complete.
C5_WinnerIffComplete ==
    \A code \in Codes :
        Registered(code) => (Room(code).winner # NoWinner <=> AllComplete(Room(code)))

(***************************************************************************)
(* SpecCard: one scorecard, score_category and calculate_possible_scores   *)
(* called on it with every category (and a name that is none) and the dice *)
(* of Hands.  The scorecard starts fresh or with an upper section of 50.   *)
(***************************************************************************)
Hands == {<<5, 5, 5, 5, 5>>, <<5, 5, 5, 5, 2>>, <<3, 3, 3, 6, 6>>, <<3, 3, 3, 3, 6>>,
          <<2, 3, 4, 5, 6>>}

\* The scorecard after the calls score_category(category, dice) of `calls`
RECURSIVE Commits(_, _)
Commits(sc, calls) ==
    IF calls = <<>> THEN sc
    ELSE Commits(Card_score_category(sc, Head(calls).category, Head(calls).dice).obj, Tail(calls))

StartCards ==
    {YahtzeeScorecard,
     Commits(YahtzeeScorecard, <<[category |-> "sixes", dice |-> Seq5(6)],
                                 [category |-> "fives", dice |-> <<5, 5, 5, 5, 2>>]>>)}

CardInit ==
    /\ DiceStart /\ GameStart /\ ServerIs(ServerStart(0))
    /\ card \in StartCards
    /\ hand = Seq5(1)
    /\ ccall = [op |-> "__init__", category |-> "", ok |-> TRUE, scores |-> NoScores, n |-> 0]

CardScore ==
    \E category \in Categories \cup {"bogus"}, dice \in Hands :
        \* once MaxCommits commits are made, only calls that fail are made
        /\ ccall.n < MaxCommits \/ ~is_category_available(card, category)
        /\ \E res \in {Card_score_category(card, category, dice)} :
            /\ res.ok => ccall.n < MaxCommits
            /\ card' = res.obj
            /\ hand' = dice
            /\ ccall' = [op |-> "score_category", category |-> category, ok |-> res.ok,
                         scores |-> NoScores, n |-> ccall.n + (IF res.ok THEN 1 ELSE 0)]
            /\ UNCHANGED <<dvars, svars, gvars>>

CardOffer ==
    \E dice \in Hands :
        /\ card' = card
        /\ hand' = dice
        /\ ccall' = [op |-> "calculate_possible_scores", category |-> "", ok |-> TRUE,
                     scores |-> calculate_possible_scores(card, dice), n |-> ccall.n]
        /\ UNCHANGED <<dvars, svars, gvars>>

CardNext == CardScore \/ CardOffer

SpecCard == CardInit /\ [][CardNext]_vars

\* The categories of a scorecard that hold a score
CommittedIn(sc) == {c \in Categories : get_all_scores(sc)[c] # None}

(***************************************************************************)
(* C11                                                                     *)
(***************************************************************************)
\* C11: a committed category is immutable: no step changes or clears its
\* score, and score_category called on it returns false and leaves every
\* stored score and yahtzee_bonus_count as they were.
C11_Immutable ==
    [][\A c \in CommittedIn(card) :
          /\ get_all_scores(card')[c] = get_all_scores(card)[c]
          /\ (ccall'.op = "score_category" /\ ccall'.category = c)
                 => ~ccall'.ok /\ card' = card]_vars

\* A second commit has been refused on a category whose stored score differs
\* from what the dice of the call would have scored
C11_Witness ==
    /\ ccall.op = "score_category"
    /\ ccall.category \in CommittedIn(card)
    /\ ~ccall.ok
    /\ CategoryScore(ccall.category, hand) # get_all_scores(card)[ccall.category]

(***************************************************************************)
(* C12                                                                     *)
(***************************************************************************)
\* C12: the keys of the dict calculate_possible_scores returns are exactly
\* the categories, of the 13, that are not committed in the scorecard.
C12_KeySet ==
    ccall.op = "calculate_possible_scores"
        => /\ DOMAIN ccall.scores = Categories \ CommittedIn(card)
           /\ Cardinality(DOMAIN ccall.scores) + Cardinality(CommittedIn(card)) = 13

\* The possible scores have been asked of a scorecard with an upper and a
\* lower category committed
C12_Witness ==
    /\ ccall.op = "calculate_possible_scores"
    /\ CommittedIn(card) \cap UpperCats # {}
    /\ CommittedIn(card) \cap LowerCats # {}
    /\ DOMAIN ccall.scores # {}

(***************************************************************************)
(* C13                                                                     *)
(***************************************************************************)
FiveOfAKind(dice) == \E v \in 1..NumFaces : \A i \in 1..NumDice : dice[i] = v

\* C13: score_category adds 1 to yahtzee_bonus_count when it succeeds on a
\* category other than yahtzee with five equal faces while the yahtzee slot
\* held 50 before the call; any other call, successful or not, leaves
\* yahtzee_bonus_count as it was.
C13_Bonus ==
    [][ccall'.op = "score_category" =>
          LET due == /\ ccall'.ok
                     /\ ccall'.category # "yahtzee"
                     /\ FiveOfAKind(hand')
                     /\ card.lower_scores["yahtzee"] = 50
          IN  card'.yahtzee_bonus_count = card.yahtzee_bonus_count + (IF due THEN 1 ELSE 0)]_vars

\* A second yahtzee has been committed and counted
C13_Witness ==
    /\ ccall.op = "score_category"
    /\ ccall.ok
    /\ ccall.category # "yahtzee"
    /\ FiveOfAKind(hand)
    /\ card.lower_scores["yahtzee"] = 50
    /\ card.yahtzee_bonus_count = 1

(***************************************************************************)
(* C14                                                                     *)
(***************************************************************************)
\* The step is a successful score_category(category, dice)
Scored(category, dice) ==
    /\ ccall'.op = "score_category"
    /\ ccall'.ok
    /\ ccall'.category = category
    /\ hand' = dice
    /\ card' # card

C14_Yahtzee ==
    Scored("yahtzee", <<5, 5, 5, 5, 5>>) => card'.lower_scores["yahtzee"] = 50

\* C14 (original statement): yahtzee committed with [5,5,5,5,5] scores 50,
\* and chance committed with [5,5,5,5,2] while the yahtzee slot holds 50
\* adds 1 to yahtzee_bonus_count and so 100 to the grand total.
C14_Original ==
    [][/\ C14_Yahtzee
       /\ (Scored("chance", <<5, 5, 5, 5, 2>>) /\ card.lower_scores["yahtzee"] = 50)
              => /\ card'.yahtzee_bonus_count = card.yahtzee_bonus_count + 1
                 /\ calculate_grand_total(card') = calculate_grand_total(card) + 22 + 100]_vars

\* C14 (amended): yahtzee committed with [5,5,5,5,5] scores 50; while the
\* yahtzee slot holds 50, chance committed with [5,5,5,5,2] (four of a kind)
\* leaves yahtzee_bonus_count as it was and adds the 22 of chance to the
\* grand total, and chance committed with [5,5,5,5,5] adds 1 to
\* yahtzee_bonus_count and so 25 + 100 to the grand total.
C14_BonusScenario ==
    [][/\ C14_Yahtzee
       /\ (Scored("chance", <<5, 5, 5, 5, 2>>) /\ card.lower_scores["yahtzee"] = 50)
              => /\ card'.yahtzee_bonus_count = card.yahtzee_bonus_count
                 /\ calculate_grand_total(card') = calculate_grand_total(card) + 22
       /\ (Scored("chance", <<5, 5, 5, 5, 5>>) /\ card.lower_scores["yahtzee"] = 50)
              => /\ card'.yahtzee_bonus_count = card.yahtzee_bonus_count + 1
                 /\ calculate_grand_total(card') = calculate_grand_total(card) + 25 + 100]_vars

\* Yahtzee holds 50 and chance has then been committed with [5,5,5,5,2]
C14_Witness ==
    /\ ccall.op = "score_category"
    /\ ccall.ok
    /\ ccall.category = "chance"
    /\ hand = <<5, 5, 5, 5, 2>>
    /\ card.lower_scores["yahtzee"] = 50
    /\ card.lower_scores["chance"] = 22
    /\ card.yahtzee_bonus_count = 0

(***************************************************************************)
(* C17                                                                     *)
(***************************************************************************)
\* C17: in every reachable scorecard the upper and lower totals are the sums
\* of the committed scores of their sections, the upper bonus is 35 when the
\* upper total is at least 63 and 0 otherwise, and the grand total is
\* upper total + upper bonus + lower total + 100 * yahtzee_bonus_count.
C17_GrandTotal ==
    LET value(c) == IF get_all_scores(card)[c] = None THEN 0 ELSE get_all_scores(card)[c]
        up == SumSeq([i \in 1..Len(UpperOrder) |-> value(UpperOrder[i])])
        low == SumSeq([i \in 1..Len(LowerOrder) |-> value(LowerOrder[i])])
        bonus == IF up >= 63 THEN 35 ELSE 0
    IN  /\ calculate_upper_total(card) = up
        /\ calculate_lower_total(card) = low
        /\ calculate_upper_bonus(card) = bonus
        /\ calculate_grand_total(card) = up + bonus + low + 100 * card.yahtzee_bonus_count

\* The upper total has reached 63 exactly and the bonus is counted
C17_Witness ==
    /\ ccall.op = "score_category"
    /\ ccall.ok
    /\ calculate_upper_total(card) = 63
    /\ calculate_grand_total(card) = 63 + 35 + calculate_lower_total(card)

(***************************************************************************)
(* SpecHand: calculate_possible_scores asked of a new scorecard for any    *)
(* five faces.                                                             *)
(***************************************************************************)
AllHands == [1..NumDice -> 1..NumFaces]

HandInit ==
    /\ DiceStart /\ GameStart /\ ServerIs(ServerStart(0))
    /\ card = YahtzeeScorecard
    /\ hand \in AllHands
    /\ ccall = [op |-> "__init__", category |-> "", ok |-> TRUE, scores |-> NoScores, n |-> 0]

HandOffer ==
    /\ ccall.op = "__init__"
    /\ ccall' = [op |-> "calculate_possible_scores", category |-> "", ok |-> TRUE,
                 scores |-> calculate_possible_scores(card, hand), n |-> 0]
    /\ UNCHANGED <<card, hand, dvars, svars, gvars>>

HandNext == HandOffer
SpecHand == HandInit /\ [][HandNext]_vars

\* The number of dice of the hand showing v
Showing(v) == Cardinality({i \in 1..NumDice : hand[i] = v})
\* The hand is dice in some order
Shuffled(dice) == \A v \in 1..NumFaces : Showing(v) = Cardinality({i \in 1..NumDice : dice[i] = v})
Offered(category) ==
    ccall.op = "calculate_possible_scores" /\ category \in DOMAIN ccall.scores

(***************************************************************************)
(* C15                                                                     *)
(***************************************************************************)
\* C15: with full_house open, the full_house score offered is 25 when one
\* face value shows 3 times and another shows 2 times, and 0 otherwise,
\* whatever the order of the dice: [3,3,3,6,6] in any order is offered 25,
\* [3,3,3,3,6] in any order and five of a kind are offered 0.
C15_FullHouse ==
    Offered("full_house") =>
        /\ ccall.scores["full_house"] =
               IF \E a, b \in 1..NumFaces : a # b /\ Showing(a) = 3 /\ Showing(b) = 2
               THEN 25 ELSE 0
        /\ Shuffled(<<3, 3, 3, 6, 6>>) => ccall.scores["full_house"] = 25
        /\ Shuffled(<<3, 3, 3, 3, 6>>) => ccall.scores["full_house"] = 0
        /\ (\E v \in 1..NumFaces : Showing(v) = 5) => ccall.scores["full_house"] = 0

\* Three 3s and two 6s, not in that order, have been offered 25
C15_Witness ==
    /\ Offered("full_house")
    /\ hand = <<6, 3, 3, 6, 3>>
    /\ ccall.scores["full_house"] = 25

(***************************************************************************)
(* C16                                                                     *)
(***************************************************************************)
Shown == {v \in 1..NumFaces : Showing(v) > 0}

\* C16: small_straight is offered 30 when the distinct faces include
\* {1,2,3,4}, {2,3,4,5} or {3,4,5,6} and 0 otherwise; large_straight is
\* offered 40 when the distinct faces are {1,2,3,4,5} or {2,3,4,5,6} and 0
\* otherwise; so a hand offered 40 for large_straight is offered 30 for
\* small_straight.
C16_Straights ==
    /\ Offered("small_straight") =>
           ccall.scores["small_straight"] =
               IF \/ {1, 2, 3, 4} \subseteq Shown
                  \/ {2, 3, 4, 5} \subseteq Shown
                  \/ {3, 4, 5, 6} \subseteq Shown
               THEN 30 ELSE 0
    /\ Offered("large_straight") =>
           ccall.scores["large_straight"] =
               IF Shown = {1, 2, 3, 4, 5} \/ Shown = {2, 3, 4, 5, 6} THEN 40 ELSE 0
    /\ (Offered("small_straight") /\ Offered("large_straight")
            /\ ccall.scores["large_straight"] = 40)
           => ccall.scores["small_straight"] = 30

\* 2..6 in some order have been offered both straights
C16_Witness ==
    /\ Offered("small_straight") /\ Offered("large_straight")
    /\ hand = <<6, 2, 4, 3, 5>>
    /\ ccall.scores["large_straight"] = 40
    /\ ccall.scores["small_straight"] = 30

(***************************************************************************)
(* SpecGame: one YahtzeeGame played from its construction, any method at   *)
(* any time.  gcall names the call made by the last step and its outcome.  *)
(***************************************************************************)
GameInit == DiceStart /\ CardStart /\ GameStart /\ ServerIs(ServerStart(0))

GameNewTurn ==
    \E r \in Draws(game.current_turn, 1..NumDice) :
        \E res \in {Game_start_new_turn(game, r)} :
            /\ game' = res.obj
            /\ gcall' = [op |-> "start_new_turn", category |-> "", err |-> res.err,
                         ok |-> res.err = "ok"]
            /\ UNCHANGED <<dvars, cvars, svars>>

GameRoll ==
    \E keep \in ServerMasks :
        \E r \in Draws(game.current_turn, Rerolled(keep)) :
            \E res \in {Game_roll_dice(game, keep, r)} :
                /\ game' = res.obj
                /\ gcall' = [op |-> "roll_dice", category |-> "", err |-> res.err,
                             ok |-> res.err = "ok"]
                /\ UNCHANGED <<dvars, cvars, svars>>

GameScore ==
    \E category \in ScoreChoices(game) :
        \E r \in Draws(game.current_turn + 1, 1..NumDice) :
            \E res \in {Game_score_category(game, category, r)} :
                /\ game' = res.obj
                /\ gcall' = [op |-> "score_category", category |-> category, err |-> "ok",
                             ok |-> res.ok]
                /\ UNCHANGED <<dvars, cvars, svars>>

GameNext == GameNewTurn \/ GameRoll \/ GameScore
SpecGame == GameInit /\ [][GameNext]_vars

(***************************************************************************)
(* C18                                                                     *)
(***************************************************************************)
\* C18: a complete game stays complete, and every start_new_turn, roll_dice
\* or score_category made on it is rejected and leaves its dice, its
\* rolls_remaining, its scorecard and its current_turn as they were.
C18_CompleteStays ==
    [][game.game_complete =>
          /\ game'.game_complete
          /\ game'.dice = game.dice
          /\ game'.scorecard = game.scorecard
          /\ game'.current_turn = game.current_turn
          /\ gcall'.op \in {"roll_dice", "start_new_turn"} => gcall'.err = "GameComplete"
          /\ gcall'.op = "score_category" => ~gcall'.ok]_vars

\* A roll has been refused by a complete game that had rolls left
C18_Witness ==
    /\ game.game_complete
    /\ game.dice.rolls_remaining > 0
    /\ gcall.op = "roll_dice"
    /\ gcall.err = "GameComplete"

(***************************************************************************)
(* C19                                                                     *)
(***************************************************************************)
\* C19: current_turn is between 1 and 13 in every reachable state, the
\* state after the 13th successful score included.
C19_TurnRange == game.current_turn \in 1..max_turns

(***************************************************************************)
(* C20                                                                     *)
(***************************************************************************)
\* The positions of broadcast_state after its `with lock` block (lines
\* 113-130): the thread reads or writes room_data['clients'] or rooms there
UnlockedStages == {"bc_send", "bc_evict", "bc_del"}
\* The thread of connection c makes no step
Stands(c) == pc'[c] = pc[c] /\ loc'[c] = loc[c]

\* C20: the registry and a room's connection set are only touched under the
\* lock, so while a thread is inside broadcast_state, between two of its
\* accesses to rooms and to room_data['clients'], no step of another thread
\* changes the registry or that connection set.
C20_UnderLock ==
    [][\A c \in Conns :
          (pc[c] \in UnlockedStages /\ Stands(c))
              => /\ rooms' = rooms
                 /\ heap'[loc[c].room_data].clients = heap[loc[c].room_data].clients]_vars

(***************************************************************************)
(* C22                                                                     *)
(***************************************************************************)
\* The step is a score_category that returned True
GameScored == gcall'.op = "score_category" /\ gcall'.ok /\ game' # game

\* C22: a successful score_category adds 1 to current_turn; if current_turn
\* is then above 13 or the 13 categories are committed, the game is complete
\* and its dice and rolls_remaining are as before the call; otherwise the
\* game is not complete, rolls_remaining is 2 (reset to 3, then the first
\* roll of the five dice) and every face is in 1..6.
C22_ScoreStep ==
    [][GameScored =>
          /\ game'.current_turn = game.current_turn + 1
          /\ IF game'.current_turn > 13
                 \/ \A c \in Categories : get_all_scores(game'.scorecard)[c] # None
             THEN game'.game_complete /\ game'.dice = game.dice
             ELSE /\ ~game'.game_complete
                  /\ game'.dice.rolls_remaining = 2
                  /\ \A i \in 1..NumDice : game'.dice.dice[i] \in 1..NumFaces]_vars

\* The 12th score has started turn 13 with a first roll that shows a 2
C22_Witness ==
    /\ gcall.op = "score_category" /\ gcall.ok
    /\ game.current_turn = 13
    /\ ~game.game_complete
    /\ game.dice.rolls_remaining = 2
    /\ game.dice.dice[NumDice] = 2

(***************************************************************************)
(* C26                                                                     *)
(***************************************************************************)
\* C26: the number of committed categories of a game is current_turn - 1,
\* and the game is complete exactly when 13 categories are committed, which
\* is exactly when current_turn is above max_turns: the game completes at
\* its 13th successful score, neither earlier nor later.
C26_TurnCount ==
    /\ Cardinality(Committed(game)) = game.current_turn - 1
    /\ game.game_complete <=> Cardinality(Committed(game)) = 13
    /\ game.game_complete <=> game.current_turn > max_turns
    /\ game.game_complete <=> Card_is_complete(game.scorecard)

\* The 13th successful score has just completed the game
C26_Witness ==
    /\ gcall.op = "score_category" /\ gcall.ok
    /\ game.game_complete
    /\ Cardinality(Committed(game)) = 13

(***************************************************************************)
(* C23                                                                     *)
(***************************************************************************)
\* C23: a roll_with_keep or roll_specific that raises the input error (a
\* mask whose length is not 5, an index outside 0..4 anywhere in the list)
\* leaves the five faces and rolls_remaining as they were before the call.
C23_RejectedUnchanged ==
    [][(dcall'.op \in {"roll_with_keep", "roll_specific"} /\ dcall'.err = "InvalidInput")
          => dset' = dset]_vars

(***************************************************************************)
(* C24                                                                     *)
(***************************************************************************)
\* C24: roll_with_keep called with a mask of 5 entries while rolls_remaining
\* is above 0 succeeds, leaves every die whose mask entry is true at its
\* face and gives every other die a face in 1..6; start_new_turn of the
\* dice set leaves the five faces as they were.
C24_Frame ==
    [][/\ (dcall'.op = "roll_with_keep" /\ dcall'.len = NumDice /\ dset.rolls_remaining > 0)
            => /\ dcall'.err = "ok"
               /\ \A i \in 1..NumDice :
                     IF dcall'.keep[i]
                     THEN dset'.dice[i] = dset.dice[i]
                     ELSE dset'.dice[i] \in 1..NumFaces
       /\ dcall'.op = "start_new_turn"
            => /\ dset'.dice = dset.dice
               /\ dset'.rolls_remaining = RollsPerTurn]_vars

\* A die showing 2 has been kept while its neighbour was rerolled to 2
C24_Witness ==
    /\ dcall.op = "roll_with_keep" /\ dcall.err = "ok"
    /\ dcall.keep = <<TRUE, FALSE, TRUE, TRUE, TRUE>>
    /\ dset.dice = <<2, 2, 1, 1, 1>>

(***************************************************************************)
(* C28                                                                     *)
(***************************************************************************)
\* Thread c processes a score command for a game that has made no roll:
\* rolls_remaining is 3, as __init__ left it
C28_Unrolled(c) ==
    LET m == loc'[c].req IN
    /\ CommandStep(c)
    /\ NamesPlayer(m)
    /\ m.command = "score"
    /\ DictGet(Room(m.code).scores, m.player).dice.rolls_remaining = RollsPerTurn

\* C28: a score command processed while the player's rolls_remaining is 3,
\* the dice of the game never rolled, is rejected: the scorecard and the
\* turn number of the game are as before.
C28_RollBeforeScore ==
    [][\A c \in Conns :
          C28_Unrolled(c) =>
              LET m == loc'[c].req
                  before == DictGet(Room(m.code).scores, m.player)
                  after == DictGet(heap'[rooms'[m.code]].state.scores, m.player)
              IN  /\ rooms'[m.code] = rooms[m.code]
                  /\ after.scorecard = before.scorecard
                  /\ after.current_turn = before.current_turn]_vars

(***************************************************************************)
(* C27                                                                     *)
(***************************************************************************)
\* players names nobody twice and scores has one game for each of them
C27_Roster(room) ==
    /\ \A i, j \in 1..Len(room.players) : i # j => room.players[i] # room.players[j]
    /\ DictKeys(room.scores) = {room.players[i] : i \in 1..Len(room.players)}

\* C27: in every room players holds no name twice and the keys of scores
\* are the players, and an accepted join leaves the game of a player who is
\* already in the room as it was, a join under that player's name included.
C27_PlayersAndGames ==
    [][/\ \A code \in Codes :
              rooms'[code] # NoRoom => C27_Roster(heap'[rooms'[code]].state)
       /\ \A c \in Conns, code \in Codes, name \in Names :
              (JoinStep(c, code, name) /\ ~C8_Rejected(code))
                  => \A p \in DictKeys(Room(code).scores) :
                         DictGet(heap'[rooms[code]].state.scores, p)
                             = DictGet(Room(code).scores, p)]_vars

(***************************************************************************)
(* C25                                                                     *)
(***************************************************************************)
\* C25: no response is written to a socket while the lock is held: of every
\* handler that answers its connection (create, join accepted, join turned
\* down), the answer is written after the `with lock` block.
C25_WriteOutsideLock == \A c \in Conns : resp[c] # "none" => ~wlock[c]

(***************************************************************************)
(* SpecCast: the room and the score commands of SpecRace, no peer          *)
(* vanishing, with what broadcast_state pickles and what every connection  *)
(* is sent.  Line 114 pickles the live Room after the lock is released; it *)
(* is read here at one instant.                                            *)
(***************************************************************************)
\* lines 113-114: game_state = room_data['state']; data = pickle.dumps(...)
CastPickle ==
    \E c \in Conns :
        /\ pc[c] = "bc_send"
        /\ snap[c] = NoSnap
        /\ snap' = [snap EXCEPT ![c] = heap[loc[c].room_data].state]
        /\ UNCHANGED <<rooms, heap, pc, loc, broken, resp, wlock, reqs, seen,
                       dvars, cvars, gvars>>

\* lines 117-121: client.sendall(data) for the next client of the list
CastSend ==
    \E c \in Conns :
        /\ pc[c] = "bc_send"
        /\ snap[c] # NoSnap
        /\ InstallServer(bc_send(State, c))
        /\ LET clients == heap[loc[c].room_data].clients
               idx == loc[c].idx
           IN  seen' = IF idx <= Len(clients) /\ ~broken[clients[idx]]
                       THEN [seen EXCEPT ![clients[idx]] = snap[c]]
                       ELSE seen
        /\ UNCHANGED <<snap, dvars, cvars, gvars>>

\* lines 123-130 with nobody to evict: broadcast_state returns
CastReturn ==
    \E c \in Conns :
        /\ pc[c] = "bc_evict"
        /\ loc[c].disconnected_clients = <<>>
        /\ InstallServer(bc_check(State, c))
        /\ snap' = [snap EXCEPT ![c] = NoSnap]
        /\ UNCHANGED <<seen, dvars, cvars, gvars>>

CastNext == RaceScore \/ BcastLookup \/ CastPickle \/ CastSend \/ CastReturn

SpecCast == RaceInit /\ [][CastNext]_vars

(***************************************************************************)
(* C21                                                                     *)
(***************************************************************************)
\* The number of score commands applied to the games of a Room
Applied(room) == SumSeq([i \in 1..Len(room.scores) |-> room.scores[i].v.current_turn - 1])

\* C21: the snapshots a connection receives arrive in the order the
\* commands were applied: no connection is sent a snapshot of an older
\* state of the room after a snapshot of a newer one.
C21_InOrder ==
    [][\A c \in Conns : Applied(seen'[c]) >= Applied(seen[c])]_vars

====
